---------------------------- MODULE Spec2Model ----------------------------
(***************************************************************************)
(* Cycle / fertility statistical engine of the Sakhi application.          *)
(*                                                                         *)
(*   CycleCalculationService   (day-level engine, in-memory log list)      *)
(*   CyclePredictionService    (summary predictor, static, pure)           *)
(*   FertilityPredictionService (fertility windows, static, pure)          *)
(*   CycleDataService          (Firestore collection of period logs)       *)
(*   CyclePage                 (load / submit handlers over both services) *)
(*                                                                         *)
(* Dates are calendar days, written as day numbers (day 0 = 2024-01-01).   *)
(* On such dates date-fns differenceInDays(a, b) is a - b, addDays(d, n)   *)
(* is d + n, isSameDay is equality and isAfter is >.                       *)
(* The flow and id fields of a PeriodLog are never read by the engine and  *)
(* are left out of the log records.                                        *)
(***************************************************************************)
EXTENDS Integers, Sequences, FiniteSets, Bags, TLC

VARIABLES
    periodLogs,     \* CycleCalculationService.periodLogs
    op,             \* the method of the service called last
    fromDate,       \* the date argument of the last query (NoDate if none)
    cycleDays,      \* value returned by the last predictNextCycle call
    phaseInfo,      \* value returned by the last getCurrentPhase call
    fertilityInfo,  \* value returned by the last getFertilityInfo call
    repeated,       \* TRUE iff the last two calls were predictNextCycle with
                    \* the same fromDate
    cycles,         \* CycleLog[] handed to CyclePredictionService
    prediction,     \* outcome of the last CyclePredictionService.predictNextCycle
    confCalls,      \* the last two calculatePredictionConfidence calls
    ovulation,      \* OvulationPrediction returned by the last predictNextOvulation
    dailyStatus,    \* value returned by the last calculateDailyFertilityStatus
    store,          \* the user's documents of the Firestore collection periodLogs
    lastCall,       \* the last CycleDataService call and its outcome
    displayed,      \* CyclePage's React state cycleDays
    isLoading,      \* CyclePage's React state isLoading
    submit,         \* the handleLogSubmit run of CyclePage and its position
    loads,          \* the loadPeriodLogs runs of CyclePage in flight
    cyclePhase,     \* last calculateCurrentPhase call: its arguments and result
    fertilityStats  \* last calculateFertilityStats call: its argument and result

vars == <<periodLogs, op, fromDate, cycleDays, phaseInfo, fertilityInfo, repeated,
          cycles, prediction, confCalls, ovulation, dailyStatus,
          store, lastCall, displayed, isLoading, submit, loads,
          cyclePhase, fertilityStats>>

engineVars == <<periodLogs, op, fromDate, cycleDays, phaseInfo, fertilityInfo, repeated>>
summaryVars == <<cycles, prediction, confCalls>>
fertilityVars == <<ovulation, dailyStatus>>
dataVars == <<store, lastCall>>
pageVars == <<displayed, isLoading, submit, loads>>
phaseVars == <<cyclePhase>>
statsVars == <<fertilityStats>>

----------------------------------------------------------------------------
(* Bounds *)

MaxLogs == 4

(* Inputs of addPeriodLog: [startDate, endDate] pairs.  Gaps between the   *)
(* start dates 0, 28, 57, 117 are 28, 29 and 60 days; (28,38) shares its   *)
(* start date with (28,32) and is 11 days long; (36,40) overlaps (28,38)   *)
(* and starts 21 days before (57,60), a cycle so short that the fertile    *)
(* days fall on period days; (117,118) is 2 days long.                     *)
LogInputs ==
    { [startDate |-> 0,   endDate |-> 4],
      [startDate |-> 28,  endDate |-> 32],
      [startDate |-> 57,  endDate |-> 60],
      [startDate |-> 117, endDate |-> 118],
      [startDate |-> 36,  endDate |-> 40],
      [startDate |-> 28,  endDate |-> 38] }

(* Dates passed to the queries: 0 is not after any log; 40 is the          *)
(* 2024-02-10 of the scenario; 56 is one 28-day cycle after day 28; 150 is *)
(* several cycles after every log but the last.                            *)
FromDates == {0, 40, 56, 150}

MaxCycles == 3
MaxCount == 14

(* Inputs of CyclePredictionService: a CycleLog is [ended, length], ended   *)
(* telling whether endDate is set and length 0 standing for a length that  *)
(* is null (or 0, which JavaScript treats the same in lines 159 and 195).  *)
CycleInputs ==
    { [ended |-> FALSE, length |-> 0],
      [ended |-> TRUE,  length |-> 14],
      [ended |-> TRUE,  length |-> 28],
      [ended |-> TRUE,  length |-> 30] }

(* The cycles are sorted by start date descending, as the predictor        *)
(* assumes (line 189): the first starts on LatestCycleStart (2024-10-27)   *)
(* and each later element starts its own length before its predecessor in  *)
(* the list, AssumedGap days before it when it has no length.             *)
LatestCycleStart == 300
AssumedGap == 28

RECURSIVE StartOf(_, _)
StartOf(cs, i) ==
    IF i = 1 THEN LatestCycleStart
    ELSE StartOf(cs, i - 1) - (IF cs[i].length # 0 THEN cs[i].length ELSE AssumedGap)

WithStartDates(cs) ==
    [i \in 1..Len(cs) |->
        [startDate |-> StartOf(cs, i), ended |-> cs[i].ended, length |-> cs[i].length]]

(* Inputs of the weighted average: up to MaxRecent cycles, one more than   *)
(* the 6 of the slice                                                      *)
MaxRecent == 7

WeightedCycleInputs ==
    { [ended |-> FALSE, length |-> 0],
      [ended |-> TRUE,  length |-> 28],
      [ended |-> TRUE,  length |-> 30] }

RECURSIVE SeqsUpTo(_, _)
SeqsUpTo(S, n) ==
    IF n = 0 THEN { << >> }
    ELSE LET shorter == SeqsUpTo(S, n - 1)
         IN  shorter \cup { Append(s, x) : s \in shorter, x \in S }

NoDate == -1

----------------------------------------------------------------------------
(* CycleCalculationService *)

DEFAULT_CYCLE_LENGTH == 28
DEFAULT_PERIOD_LENGTH == 6

differenceInDays(a, b) == a - b
addDays(d, n) == d + n
subDays(d, n) == d - n
isSameDay(a, b) == a = b
isAfter(a, b) == a > b

(* Math.round of the quotient n / d of two integers, d > 0: the nearest     *)
(* integer, a tie going up.                                                *)
MathRound(n, d) == (2 * n + d) \div (2 * d)

(* the array left in the order in which the logs were pushed *)
SortDescByStart_AsPushed(s) == s

(* Array.prototype.sort is stable; SortSeq is a stable insertion sort that  *)
(* moves an element in front of another only if the test is true, and the  *)
(* test is "the comparator's result is negative".                          *)
(* line 89: (a, b) => b.startDate.getTime() - a.startDate.getTime()        *)
SortDescByStart(s) ==
    SortSeq(s, LAMBDA a, b : b.startDate - a.startDate < 0)

(* the array left in the order in which the days were pushed *)
SortAscByDate_AsPushed(s) == s

(* line 224: (a, b) => a.date.getTime() - b.date.getTime() *)
SortAscByDate(s) ==
    SortSeq(s, LAMBDA a, b : a.date - b.date < 0)

(* CycleLoop with the upper limit of line 105 left out *)
RECURSIVE CycleLoop_NoUpperLimit(_, _, _, _)
CycleLoop_NoUpperLimit(logs, i, totalDays, validCycles) ==
    IF i > Len(logs) - 1 THEN <<totalDays, validCycles>>
    ELSE LET cycleDaysI == differenceInDays(logs[i].startDate, logs[i+1].startDate)
         IN  IF cycleDaysI >= 21
             THEN CycleLoop_NoUpperLimit(logs, i + 1, totalDays + cycleDaysI, validCycles + 1)
             ELSE CycleLoop_NoUpperLimit(logs, i + 1, totalDays, validCycles)

(* lines 98-109: the loop over adjacent entries of periodLogs *)
RECURSIVE CycleLoop(_, _, _, _)
CycleLoop(logs, i, totalDays, validCycles) ==
    IF i > Len(logs) - 1 THEN <<totalDays, validCycles>>
    ELSE LET cycleDaysI == differenceInDays(logs[i].startDate, logs[i+1].startDate)
         IN  IF cycleDaysI >= 21 /\ cycleDaysI <= 35
             THEN CycleLoop(logs, i + 1, totalDays + cycleDaysI, validCycles + 1)
             ELSE CycleLoop(logs, i + 1, totalDays, validCycles)

calculateAverageCycleLength(logs) ==
    IF Len(logs) < 2 THEN DEFAULT_CYCLE_LENGTH
    ELSE LET r == CycleLoop(logs, 1, 0, 0)
         IN  IF r[2] > 0 THEN MathRound(r[1], r[2]) ELSE DEFAULT_CYCLE_LENGTH

(* PeriodLoop counting every log in the divisor, in range or not *)
RECURSIVE PeriodLoop_CountsAll(_, _, _, _)
PeriodLoop_CountsAll(logs, i, totalDays, validPeriods) ==
    IF i > Len(logs) THEN <<totalDays, validPeriods>>
    ELSE LET periodDays == differenceInDays(logs[i].endDate, logs[i].startDate) + 1
         IN  IF periodDays >= 3 /\ periodDays <= 10
             THEN PeriodLoop_CountsAll(logs, i + 1, totalDays + periodDays, validPeriods + 1)
             ELSE PeriodLoop_CountsAll(logs, i + 1, totalDays, validPeriods + 1)

(* PeriodLoop with the upper limit of line 124 left out *)
RECURSIVE PeriodLoop_NoUpperLimit(_, _, _, _)
PeriodLoop_NoUpperLimit(logs, i, totalDays, validPeriods) ==
    IF i > Len(logs) THEN <<totalDays, validPeriods>>
    ELSE LET periodDays == differenceInDays(logs[i].endDate, logs[i].startDate) + 1
         IN  IF periodDays >= 3
             THEN PeriodLoop_NoUpperLimit(logs, i + 1, totalDays + periodDays, validPeriods + 1)
             ELSE PeriodLoop_NoUpperLimit(logs, i + 1, totalDays, validPeriods)

(* lines 120-128: the forEach over periodLogs *)
RECURSIVE PeriodLoop(_, _, _, _)
PeriodLoop(logs, i, totalDays, validPeriods) ==
    IF i > Len(logs) THEN <<totalDays, validPeriods>>
    ELSE LET periodDays == differenceInDays(logs[i].endDate, logs[i].startDate) + 1
         IN  IF periodDays >= 3 /\ periodDays <= 10
             THEN PeriodLoop(logs, i + 1, totalDays + periodDays, validPeriods + 1)
             ELSE PeriodLoop(logs, i + 1, totalDays, validPeriods)

(* the length of the first log of the list taken for the average *)
calculateAveragePeriodLength_FirstLogOnly(logs) ==
    IF Len(logs) = 0 THEN DEFAULT_PERIOD_LENGTH
    ELSE differenceInDays(logs[1].endDate, logs[1].startDate) + 1

calculateAveragePeriodLength(logs) ==
    IF Len(logs) = 0 THEN DEFAULT_PERIOD_LENGTH
    ELSE LET r == PeriodLoop(logs, 1, 0, 0)
         IN  IF r[2] > 0 THEN MathRound(r[1], r[2]) ELSE DEFAULT_PERIOD_LENGTH

Intensity(i) == IF i = 0 THEN "heavy" ELSE IF i < 2 THEN "medium" ELSE "light"

(* LogDays without the "+ 1" of line 146 *)
LogDays_NoLastDay(log) ==
    LET days == differenceInDays(log.endDate, log.startDate)
    IN  IF days <= 0 THEN << >>
        ELSE [k \in 1..days |->
                [date |-> addDays(log.startDate, k - 1), phase |-> "period",
                 intensity |-> Intensity(k - 1), prediction |-> FALSE]]

(* lines 145-157: the logged periods, one entry per logged day *)
LogDays(log) ==
    LET days == differenceInDays(log.endDate, log.startDate) + 1
    IN  IF days <= 0 THEN << >>
        ELSE [k \in 1..days |->
                [date |-> addDays(log.startDate, k - 1), phase |-> "period",
                 intensity |-> Intensity(k - 1), prediction |-> FALSE]]

RECURSIVE PastPeriods(_, _)
PastPeriods(logs, i) ==
    IF i > Len(logs) THEN << >>
    ELSE LogDays(logs[i]) \o PastPeriods(logs, i + 1)

(* NextPeriodStart advancing by one cycle only, from the last log *)
NextPeriodStart_OneCycle(logs, from) ==
    LET mostRecentPeriod == logs[1]
        cycleLength == calculateAverageCycleLength(logs)
    IN  IF isAfter(from, mostRecentPeriod.startDate)
        THEN addDays(mostRecentPeriod.startDate, cycleLength)
        ELSE mostRecentPeriod.startDate

(* lines 169-183: the start of the first projected period *)
NextPeriodStart(logs, from) ==
    LET mostRecentPeriod == logs[1]
        cycleLength == calculateAverageCycleLength(logs)
    IN  IF isAfter(from, mostRecentPeriod.startDate)
        THEN LET daysSinceLastPeriod == differenceInDays(from, mostRecentPeriod.startDate)
                 daysUntilNextPeriod == cycleLength - (daysSinceLastPeriod % cycleLength)
             IN  addDays(from, daysUntilNextPeriod)
        ELSE mostRecentPeriod.startDate

(* push without the test of lines 194 / 212 *)
PushIfAbsent_Always(acc, day) == Append(acc, day)

(* lines 194 / 212: push unless a day with the same date is already there *)
PushIfAbsent(acc, day) ==
    IF \E k \in 1..Len(acc) : isSameDay(acc[k].date, day.date) THEN acc
    ELSE Append(acc, day)

(* The loops of lines 186-221 are tail recursions over the accumulated     *)
(* cycleDays; Len(..) >= 0 is always true and makes each iteration's array *)
(* a value before the next iteration starts.                               *)

(* lines 191-202 *)
RECURSIVE ProjectPeriod(_, _, _, _)
ProjectPeriod(acc, cycleStartDate, day, periodLength) ==
    IF day >= periodLength THEN acc
    ELSE LET pushed == PushIfAbsent(acc,
                          [date |-> addDays(cycleStartDate, day), phase |-> "period",
                           intensity |-> Intensity(day), prediction |-> TRUE])
         IN  IF Len(pushed) >= 0
             THEN ProjectPeriod(pushed, cycleStartDate, day + 1, periodLength)
             ELSE pushed

(* ProjectFertile calling the day before the ovulation day 'ovulation' *)
RECURSIVE ProjectFertile_DayEarly(_, _, _)
ProjectFertile_DayEarly(acc, ovulationDay, day) ==
    IF day > 0 THEN acc
    ELSE LET pushed == PushIfAbsent(acc,
                          [date |-> addDays(ovulationDay, day),
                           phase |-> IF day = -1 THEN "ovulation" ELSE "fertile",
                           intensity |-> "none", prediction |-> TRUE])
         IN  IF Len(pushed) >= 0
             THEN ProjectFertile_DayEarly(pushed, ovulationDay, day + 1)
             ELSE pushed

(* lines 210-220 *)
RECURSIVE ProjectFertile(_, _, _)
ProjectFertile(acc, ovulationDay, day) ==
    IF day > 0 THEN acc
    ELSE LET pushed == PushIfAbsent(acc,
                          [date |-> addDays(ovulationDay, day),
                           phase |-> IF day = 0 THEN "ovulation" ELSE "fertile",
                           intensity |-> "none", prediction |-> TRUE])
         IN  IF Len(pushed) >= 0
             THEN ProjectFertile(pushed, ovulationDay, day + 1)
             ELSE pushed

(* ProjectCycles going round the loop of line 186 four times *)
RECURSIVE ProjectCycles_FourCycles(_, _, _, _, _)
ProjectCycles_FourCycles(acc, nextPeriodStart, cycle, cycleLength, periodLength) ==
    IF cycle >= 4 THEN acc
    ELSE LET cycleStartDate == addDays(nextPeriodStart, cycle * cycleLength)
             withPeriod == ProjectPeriod(acc, cycleStartDate, 0, periodLength)
             nextCycleStart == addDays(cycleStartDate, cycleLength)
             ovulationDay == subDays(nextCycleStart, 14)
             withFertile == ProjectFertile(withPeriod, ovulationDay, -5)
         IN  IF Len(withPeriod) >= 0 /\ Len(withFertile) >= 0
             THEN ProjectCycles_FourCycles(withFertile, nextPeriodStart, cycle + 1,
                                           cycleLength, periodLength)
             ELSE withFertile

(* lines 186-221 *)
RECURSIVE ProjectCycles(_, _, _, _, _)
ProjectCycles(acc, nextPeriodStart, cycle, cycleLength, periodLength) ==
    IF cycle >= 3 THEN acc
    ELSE LET cycleStartDate == addDays(nextPeriodStart, cycle * cycleLength)
             withPeriod == ProjectPeriod(acc, cycleStartDate, 0, periodLength)
             nextCycleStart == addDays(cycleStartDate, cycleLength)
             ovulationDay == subDays(nextCycleStart, 14)
             withFertile == ProjectFertile(withPeriod, ovulationDay, -5)
         IN  IF Len(withPeriod) >= 0 /\ Len(withFertile) >= 0
             THEN ProjectCycles(withFertile, nextPeriodStart, cycle + 1,
                                cycleLength, periodLength)
             ELSE withFertile

(* predictNextCycle without the early return of lines 137-140, projecting   *)
(* from the date given when there is no log                                *)
predictNextCycle_NoEmptyGuard(logs, from) ==
    SortAscByDate(
        ProjectCycles(PastPeriods(logs, 1),
                      IF Len(logs) = 0 THEN from ELSE NextPeriodStart(logs, from), 0,
                      calculateAverageCycleLength(logs),
                      calculateAveragePeriodLength(logs)))

predictNextCycle(logs, from) ==
    IF Len(logs) = 0 THEN << >>
    ELSE SortAscByDate(
            ProjectCycles(PastPeriods(logs, 1), NextPeriodStart(logs, from), 0,
                          calculateAverageCycleLength(logs),
                          calculateAveragePeriodLength(logs)))

(* Array.prototype.find: index of the first element satisfying the test, 0 *)
(* when there is none.                                                     *)
FirstIndex(found) ==
    IF found = {} THEN 0
    ELSE CHOOSE k \in found : \A j \in found : k <= j

FindSameDay(s, date) ==
    FirstIndex({k \in 1..Len(s) : isSameDay(s[k].date, date)})

FindAfter(s, date, phases) ==
    FirstIndex({k \in 1..Len(s) : isAfter(s[k].date, date) /\ s[k].phase \in phases})

AllPhases == {"period", "fertile", "ovulation", "unknown"}

getCurrentPhase(logs, date) ==
    IF Len(logs) = 0 THEN [phase |-> "unknown", daysUntil |-> 0]
    ELSE LET predictions == predictNextCycle(logs, date)
             cur == FindSameDay(predictions, date)
             nxt == FindAfter(predictions, date, AllPhases)
         IN  IF cur # 0 THEN [phase |-> predictions[cur].phase, daysUntil |-> 0]
             ELSE IF nxt # 0
                  THEN [phase |-> predictions[nxt].phase,
                        daysUntil |-> differenceInDays(predictions[nxt].date, date)]
                  ELSE [phase |-> "unknown", daysUntil |-> 0]

getFertilityInfo(logs, date) ==
    IF Len(logs) = 0
    THEN [isFertile |-> FALSE, isOvulation |-> FALSE,
          nextFertileStart |-> NoDate, nextOvulation |-> NoDate]
    ELSE LET predictions == predictNextCycle(logs, date)
             cur == FindSameDay(predictions, date)
             nf == FindAfter(predictions, date, {"fertile", "ovulation"})
             no == FindAfter(predictions, date, {"ovulation"})
         IN  [isFertile |-> cur # 0 /\ predictions[cur].phase \in {"fertile", "ovulation"},
              isOvulation |-> cur # 0 /\ predictions[cur].phase = "ovulation",
              nextFertileStart |-> IF nf = 0 THEN NoDate ELSE predictions[nf].date,
              nextOvulation |-> IF no = 0 THEN NoDate ELSE predictions[no].date]

NoPhaseInfo == [phase |-> "none", daysUntil |-> 0]
NoFertilityInfo == [isFertile |-> FALSE, isOvulation |-> FALSE,
                    nextFertileStart |-> NoDate, nextOvulation |-> NoDate]

(* Operations of the service *)

clearLogs ==
    /\ periodLogs' = << >>
    /\ op' = "clearLogs"
    /\ fromDate' = NoDate
    /\ cycleDays' = << >>
    /\ phaseInfo' = NoPhaseInfo
    /\ fertilityInfo' = NoFertilityInfo
    /\ repeated' = FALSE
    /\ UNCHANGED <<summaryVars, fertilityVars, dataVars, pageVars, phaseVars, statsVars>>

addPeriodLog(log) ==
    /\ Len(periodLogs) < MaxLogs
    /\ periodLogs' = SortDescByStart(Append(periodLogs, log))
    /\ op' = "addPeriodLog"
    /\ fromDate' = NoDate
    /\ cycleDays' = << >>
    /\ phaseInfo' = NoPhaseInfo
    /\ fertilityInfo' = NoFertilityInfo
    /\ repeated' = FALSE
    /\ UNCHANGED <<summaryVars, fertilityVars, dataVars, pageVars, phaseVars, statsVars>>

(* predictNextCycle sorting this.periodLogs in place, oldest first, before  *)
(* it computes                                                             *)
PredictNextCycle_SortsLogs(from) ==
    /\ periodLogs' = SortSeq(periodLogs, LAMBDA a, b : a.startDate - b.startDate < 0)
    /\ cycleDays' = predictNextCycle(periodLogs', from)
    /\ op' = "predictNextCycle"
    /\ fromDate' = from
    /\ phaseInfo' = NoPhaseInfo
    /\ fertilityInfo' = NoFertilityInfo
    /\ repeated' = (op = "predictNextCycle" /\ fromDate = from)
    /\ UNCHANGED <<summaryVars, fertilityVars, dataVars, pageVars, phaseVars, statsVars>>

PredictNextCycle(from) ==
    /\ cycleDays' = predictNextCycle(periodLogs, from)
    /\ op' = "predictNextCycle"
    /\ fromDate' = from
    /\ phaseInfo' = NoPhaseInfo
    /\ fertilityInfo' = NoFertilityInfo
    /\ repeated' = (op = "predictNextCycle" /\ fromDate = from)
    /\ UNCHANGED periodLogs
    /\ UNCHANGED <<summaryVars, fertilityVars, dataVars, pageVars, phaseVars, statsVars>>

GetCurrentPhase(date) ==
    /\ phaseInfo' = getCurrentPhase(periodLogs, date)
    /\ op' = "getCurrentPhase"
    /\ fromDate' = date
    /\ cycleDays' = << >>
    /\ fertilityInfo' = NoFertilityInfo
    /\ repeated' = FALSE
    /\ UNCHANGED periodLogs
    /\ UNCHANGED <<summaryVars, fertilityVars, dataVars, pageVars, phaseVars, statsVars>>

GetFertilityInfo(date) ==
    /\ fertilityInfo' = getFertilityInfo(periodLogs, date)
    /\ op' = "getFertilityInfo"
    /\ fromDate' = date
    /\ cycleDays' = << >>
    /\ phaseInfo' = NoPhaseInfo
    /\ repeated' = FALSE
    /\ UNCHANGED periodLogs
    /\ UNCHANGED <<summaryVars, fertilityVars, dataVars, pageVars, phaseVars, statsVars>>

(* A Date of the summary predictor is [day, ms]: the day number and the     *)
(* milliseconds since its midnight, a Date holding a whole number of       *)
(* milliseconds.  A number that need not be whole (a mean, a weighted      *)
(* average) is the exact fraction [num, den]; den = 0 is NaN.              *)
InvalidDate == [day |-> NoDate, ms |-> 0]

NaNFraction == [num |-> 0, den |-> 0]

NoPrediction == [status |-> "none", basedOnCycles |-> 0,
                 confidence |-> 0, regularityScore |-> 0,
                 predictedLength |-> NaNFraction,
                 nextPeriodStart |-> InvalidDate, nextPeriodEnd |-> InvalidDate,
                 phasesPrediction |-> << >>]

----------------------------------------------------------------------------
(* CyclePredictionService (cycleService.ts)                                *)
(*                                                                         *)
(* JavaScript numbers that are not integers are fixed-point here: mean,    *)
(* standardDeviation and regularityScore in hundredths, the variation      *)
(* coefficient in ten-thousandths, all truncated.  NaN is the value of     *)
(* 0 / 0 and of every operation on it.                                     *)

NaN == -1

MIN_CYCLES_FOR_PREDICTION == 3

(* Math.sqrt, truncated: the largest r with r * r <= x *)
RECURSIVE SqrtSearch(_, _, _)
SqrtSearch(x, lo, hi) ==
    IF lo >= hi THEN lo
    ELSE LET mid == (lo + hi + 1) \div 2
         IN  IF mid * mid <= x THEN SqrtSearch(x, mid, hi) ELSE SqrtSearch(x, lo, mid - 1)

MathSqrt(x) == SqrtSearch(x, 0, 46340)

(* lines 158-160 *)
Lengths(cs) ==
    LET kept == SelectSeq(cs, LAMBDA c : c.ended /\ c.length # 0)
    IN  [k \in 1..Len(kept) |-> kept[k].length]

RECURSIVE Reduce(_, _, _)
Reduce(s, i, square) ==
    IF i > Len(s) THEN 0
    ELSE (IF square THEN s[i] * s[i] ELSE s[i]) + Reduce(s, i + 1, square)

(* With n lengths of sum S and sum of squares Q, mean = S / n,             *)
(* variance = (n * Q - S * S) / (n * n), and so                            *)
(* standardDeviation = sqrt(n * Q - S * S) / n and                         *)
(* variationCoefficient = sqrt(n * Q - S * S) / S.                         *)
Analysis(lengths) ==
    LET n == Len(lengths)
        S == Reduce(lengths, 1, FALSE)
        Q == Reduce(lengths, 1, TRUE)
        root == MathSqrt(10000 * (n * Q - S * S))
        variationCoefficient == (100 * root) \div S
        score == 10000 - (10 * variationCoefficient) \div 3
    IN  IF n = 0
        THEN [threw |-> FALSE, mean |-> NaN, standardDeviation |-> NaN,
              regularityScore |-> NaN, isRegular |-> FALSE]
        ELSE [threw |-> FALSE,
              mean |-> (100 * S) \div n,
              standardDeviation |-> root \div n,
              regularityScore |-> IF score < 0 THEN 0
                                  ELSE IF score > 10000 THEN 10000 ELSE score,
              isRegular |-> variationCoefficient <= 1500]

Threw == [threw |-> TRUE, mean |-> NaN, standardDeviation |-> NaN,
          regularityScore |-> NaN, isRegular |-> FALSE]

(* analyzeCycles without the check of lines 153-155 *)
analyzeCycles_NoCheck(cs) == Analysis(Lengths(cs))

(* lines 152-183 *)
analyzeCycles(cs) ==
    IF Len(cs) < MIN_CYCLES_FOR_PREDICTION THEN Threw
    ELSE Analysis(Lengths(cs))

(* calculatePredictionConfidence with the difference of line 257 reversed *)
calculatePredictionConfidence_Reversed(analysis, cycleCount) ==
    IF analysis.regularityScore = NaN THEN NaN
    ELSE LET ninths == IF MIN_CYCLES_FOR_PREDICTION - cycleCount > 9 THEN 9
                       ELSE MIN_CYCLES_FOR_PREDICTION - cycleCount
             ratio == (100 * analysis.standardDeviation) \div analysis.mean
             variationPenalty == IF ratio > 100 THEN 0 ELSE 100 - ratio
             num == analysis.regularityScore * (21 + ninths) * (400 + variationPenalty)
             den == 100 * 30 * 500
         IN  IF num < 0 THEN 0
             ELSE IF num > 100 * den THEN 100 ELSE MathRound(num, den)

(* lines 249-265.  cycleCountFactor = min(1, (cycleCount - 3) / 9) is      *)
(* ninths / 9, so 0.7 + 0.3 * cycleCountFactor = (21 + ninths) / 30;       *)
(* variationPenalty is in hundredths, so 0.8 + 0.2 * variationPenalty =    *)
(* (400 + variationPenalty) / 500.                                         *)
calculatePredictionConfidence(analysis, cycleCount) ==
    IF analysis.regularityScore = NaN THEN NaN
    ELSE LET ninths == IF cycleCount - MIN_CYCLES_FOR_PREDICTION > 9 THEN 9
                       ELSE cycleCount - MIN_CYCLES_FOR_PREDICTION
             ratio == (100 * analysis.standardDeviation) \div analysis.mean
             variationPenalty == IF ratio > 100 THEN 0 ELSE 100 - ratio
             num == analysis.regularityScore * (21 + ninths) * (400 + variationPenalty)
             den == 100 * 30 * 500
         IN  IF num < 0 THEN 0
             ELSE IF num > 100 * den THEN 100 ELSE MathRound(num, den)

(* line 163: analysis.mean as the exact fraction sum / count *)
MeanFraction(cs) ==
    [num |-> Reduce(Lengths(cs), 1, FALSE), den |-> Len(Lengths(cs))]

MsPerDay == 86400000

(* 96 * 90 * 100 * 100 = 24 * 60 * 60 * 1000 *)
MsFactors == <<96, 90, 100, 100>>

RECURSIVE Product(_, _)
Product(s, i) == IF i > Len(s) THEN 1 ELSE s[i] * Product(s, i + 1)

(* the whole part of (r / den) * MsPerDay for 0 <= r < den, taken factor   *)
(* by factor to stay within 32 bits                                        *)
RECURSIVE FloorMs(_, _, _)
FloorMs(r, den, i) ==
    IF i > Len(MsFactors) THEN 0
    ELSE LET x == r * MsFactors[i]
         IN  (x \div den) * Product(MsFactors, i + 1) + FloorMs(x % den, den, i + 1)

(* new Date(date.getTime() + days * 24 * 60 * 60 * 1000) for the number of *)
(* days num / den >= 0 (lines 198, 199, 238): the sum is cut to a whole    *)
(* number of milliseconds by the Date constructor; NaN and an invalid date *)
(* give an invalid date.  The doubles of the source are taken as exact.    *)
AddDaysFraction(date, num, den) ==
    IF date = InvalidDate \/ den = 0 THEN InvalidDate
    ELSE LET ms == date.ms + FloorMs(num % den, den, 1)
         IN  [day |-> date.day + (num \div den) + (ms \div MsPerDay),
              ms |-> ms % MsPerDay]

(* line 192 with a slice of at most 5 cycles *)
RecentCycles_Five(cs) ==
    SubSeq(cs, 1, IF Len(cs) < 5 THEN Len(cs) ELSE 5)

(* line 192: cycles.slice(0, Math.min(6, cycles.length)) *)
RecentCycles(cs) ==
    SubSeq(cs, 1, IF Len(cs) < 6 THEN Len(cs) ELSE 6)

(* line 193: Math.pow(0.8, i), as the whole number 0.8^i * 5^5 (i <= 5) *)
Weight(i) == (4 ^ i) * (5 ^ (5 - i))

RECURSIVE TotalWeight(_, _)
TotalWeight(recentCycles, i) ==
    IF i > Len(recentCycles) THEN 0
    ELSE Weight(i - 1) + TotalWeight(recentCycles, i + 1)

(* line 194: the reduce over recentCycles of                               *)
(* (cycle.length || analysis.mean) * weights[i], multiplied by count, the  *)
(* denominator of the mean (by 1 when the mean is NaN)                     *)
RECURSIVE WeightedSum(_, _, _, _)
WeightedSum(recentCycles, i, meanSum, count) ==
    IF i > Len(recentCycles) THEN 0
    ELSE (IF recentCycles[i].length # 0 THEN recentCycles[i].length * count ELSE meanSum)
              * Weight(i - 1)
         + WeightedSum(recentCycles, i + 1, meanSum, count)

(* lines 192-196: weightedSum / totalWeight; NaN when a cycle of the slice *)
(* has no length and the mean is NaN                                       *)
PredictedLength(cs) ==
    LET recentCycles == RecentCycles(cs)
        mean == MeanFraction(cs)
        count == IF mean.den = 0 THEN 1 ELSE mean.den
    IN  IF mean.den = 0 /\ \E i \in 1..Len(recentCycles) : recentCycles[i].length = 0
        THEN NaNFraction
        ELSE [num |-> WeightedSum(recentCycles, 1, mean.num, count),
              den |-> count * TotalWeight(recentCycles, 1)]

(* lines 142-147: TYPICAL_PHASE_LENGTHS in the order of its keys, with     *)
(* twice the average (min + max) / 2 of each phase                         *)
TYPICAL_PHASE_LENGTHS ==
    << [phase |-> "menstrual",  min |-> 3,  max |-> 7],
       [phase |-> "follicular", min |-> 7,  max |-> 14],
       [phase |-> "ovulation",  min |-> 1,  max |-> 2],
       [phase |-> "luteal",     min |-> 12, max |-> 16] >>

(* lines 225-226: twice totalPhaseLength *)
RECURSIVE TwiceTotalPhaseLength(_)
TwiceTotalPhaseLength(i) ==
    IF i > Len(TYPICAL_PHASE_LENGTHS) THEN 0
    ELSE TYPICAL_PHASE_LENGTHS[i].min + TYPICAL_PHASE_LENGTHS[i].max
            + TwiceTotalPhaseLength(i + 1)

(* lines 234-241: the loop over the phases from currentDate on;            *)
(* avgLength = ((min + max) / 2) * cycleLength / totalPhaseLength          *)
RECURSIVE PhaseLoop(_, _, _)
PhaseLoop(i, currentDate, cycleLength) ==
    IF i > Len(TYPICAL_PHASE_LENGTHS) THEN << >>
    ELSE LET p == TYPICAL_PHASE_LENGTHS[i]
             end == AddDaysFraction(currentDate, (p.min + p.max) * cycleLength.num,
                                    TwiceTotalPhaseLength(1) * cycleLength.den)
         IN  << [phase |-> p.phase, start |-> currentDate, end |-> end] >>
                \o PhaseLoop(i + 1, end, cycleLength)

(* lines 224-244 *)
predictCyclePhases(cycleStart, cycleLength) == PhaseLoop(1, cycleStart, cycleLength)

(* lines 188-219: the outcome of CyclePredictionService.predictNextCycle *)
CPS_predictNextCycle(cs) ==
    LET analysis == analyzeCycles(cs)
        lastCycle == cs[1]
        mean == MeanFraction(cs)
        predictedLength == PredictedLength(cs)
        nextStart == AddDaysFraction([day |-> lastCycle.startDate, ms |-> 0],
                                     predictedLength.num, predictedLength.den)
        nextEnd == AddDaysFraction(nextStart, mean.num, mean.den)
    IN  IF analysis.threw
        THEN [status |-> "threw", basedOnCycles |-> 0,
              confidence |-> 0, regularityScore |-> 0,
              predictedLength |-> NaNFraction,
              nextPeriodStart |-> InvalidDate, nextPeriodEnd |-> InvalidDate,
              phasesPrediction |-> << >>]
        ELSE [status |-> "ok", basedOnCycles |-> Len(cs),
              confidence |-> calculatePredictionConfidence(analysis, Len(cs)),
              regularityScore |-> analysis.regularityScore,
              predictedLength |-> predictedLength,
              nextPeriodStart |-> nextStart, nextPeriodEnd |-> nextEnd,
              phasesPrediction |-> predictCyclePhases(nextStart, mean)]

SummaryPredict ==
    /\ prediction' = CPS_predictNextCycle(cycles)
    /\ confCalls' = << >>
    /\ UNCHANGED cycles
    /\ UNCHANGED <<engineVars, fertilityVars, dataVars, pageVars, phaseVars, statsVars>>

(* calculatePredictionConfidence applied to the analysis of the cycles and *)
(* a cycle count; the two most recent calls are kept, latest first         *)
CallConfidence(cycleCount) ==
    /\ ~analyzeCycles(cycles).threw
    /\ confCalls' =
          << [count |-> cycleCount,
              confidence |-> calculatePredictionConfidence(analyzeCycles(cycles), cycleCount)] >>
          \o (IF Len(confCalls) = 0 THEN << >> ELSE << confCalls[1] >>)
    /\ prediction' = NoPrediction
    /\ UNCHANGED cycles
    /\ UNCHANGED <<engineVars, fertilityVars, dataVars, pageVars, phaseVars, statsVars>>


----------------------------------------------------------------------------
(* FertilityPredictionService (fertilityPredictionService.ts)              *)
(*                                                                         *)
(* A window's probability is in tenths, confidence in hundredths and a     *)
(* daily probability, their product, in thousandths.                       *)

HIGHLY_FERTILE_WINDOW == 3

(* Inputs of predictNextOvulation: the cycle list, of which only the start *)
(* date of cycles[0] is read (day 60 = 2024-03-01), and of the stats the   *)
(* averageOvulationDay and the confidenceLevel.  Day 60 + 14 = 74 is the   *)
(* 2024-03-15 of the scenario.                                             *)
FertilityCycleInputs == { << [startDate |-> 60] >>, << [startDate |-> 61] >> }

StatsInputs ==
    [averageOvulationDay : {14, 16}, confidenceLevel : {0, 50, 80, 100}]

(* Date ranges passed to calculateDailyFertilityStatus: from 8 days before *)
(* the earliest ovulation date (74) to 15 days after the latest (77); the  *)
(* range 80..78 is empty.                                                  *)
RangeStarts == {66, 70, 80}
RangeEnds == {72, 78, 92}

NoOvulation == [expectedDate |-> NoDate, confidence |-> 0, fertilityWindows |-> << >>]

(* lines 73-113 *)
predictNextOvulation(cs, stats) ==
    LET lastCycle == cs[1]
        expectedOvulationDate == addDays(lastCycle.startDate, stats.averageOvulationDay)
    IN  [expectedDate |-> expectedOvulationDate,
         confidence |-> stats.confidenceLevel,
         fertilityWindows |->
            << [start |-> expectedOvulationDate - HIGHLY_FERTILE_WINDOW,
                end |-> expectedOvulationDate,
                type |-> "HIGHLY_FERTILE", probability |-> 3],
               [start |-> expectedOvulationDate,
                end |-> expectedOvulationDate + 2,
                type |-> "FERTILE", probability |-> 2],
               [start |-> expectedOvulationDate - (HIGHLY_FERTILE_WINDOW + 2),
                end |-> expectedOvulationDate - HIGHLY_FERTILE_WINDOW,
                type |-> "LESS_FERTILE", probability |-> 1] >>]

(* determineFertilityPhase with the limit of line 154 one day too far *)
determineFertilityPhase_LutealFifteen(date, pred) ==
    LET daysDiff == MathRound(date - pred.expectedDate, 1)
    IN  IF daysDiff = 0 THEN "OVULATION"
        ELSE IF daysDiff < 0 /\ daysDiff >= -5 THEN "FOLLICULAR"
        ELSE IF daysDiff > 0 /\ daysDiff <= 15 THEN "LUTEAL"
        ELSE "FOLLICULAR"

(* lines 144-156 *)
determineFertilityPhase(date, pred) ==
    LET daysDiff == MathRound(date - pred.expectedDate, 1)
    IN  IF daysDiff = 0 THEN "OVULATION"
        ELSE IF daysDiff < 0 /\ daysDiff >= -5 THEN "FOLLICULAR"
        ELSE IF daysDiff > 0 /\ daysDiff <= 14 THEN "LUTEAL"
        ELSE "FOLLICULAR"

(* lines 161-169: the first window of the array that holds the date *)
calculateDailyProbability(date, pred) ==
    LET w == FirstIndex({k \in 1..Len(pred.fertilityWindows) :
                            /\ date >= pred.fertilityWindows[k].start
                            /\ date <= pred.fertilityWindows[k].end})
    IN  IF w # 0 THEN pred.fertilityWindows[w].probability * pred.confidence ELSE 0

(* lines 174-192 *)
generateDailyNotes(date, pred) ==
    LET daysDiff == MathRound(date - pred.expectedDate, 1)
    IN  IF daysDiff = 0
        THEN << "Ovulation day - highest chance of conception",
                "Egg survives for about 24 hours after release" >>
        ELSE IF daysDiff >= -3 /\ daysDiff < 0
        THEN << "Highly fertile days - recommended for conception",
                "Sperm can survive up to 5 days in fertile cervical mucus" >>
        ELSE << >>

(* lines 118-139: one status per day from startDate to endDate *)
calculateDailyFertilityStatus(startDate, endDate, pred) ==
    IF startDate > endDate THEN << >>
    ELSE [k \in 1..(endDate - startDate + 1) |->
            LET currentDate == addDays(startDate, k - 1)
            IN  [date |-> currentDate,
                 phase |-> determineFertilityPhase(currentDate, pred),
                 probability |-> calculateDailyProbability(currentDate, pred),
                 notes |-> generateDailyNotes(currentDate, pred)]]

PredictNextOvulation(cs, stats) ==
    /\ ovulation' = predictNextOvulation(cs, stats)
    /\ dailyStatus' = << >>
    /\ UNCHANGED <<engineVars, summaryVars, dataVars, pageVars, phaseVars, statsVars>>

(* calculateDailyFertilityStatus applied to the prediction returned last *)
CalculateDailyFertilityStatus(startDate, endDate) ==
    /\ ovulation # NoOvulation
    /\ dailyStatus' = calculateDailyFertilityStatus(startDate, endDate, ovulation)
    /\ UNCHANGED ovulation
    /\ UNCHANGED <<engineVars, summaryVars, dataVars, pageVars, phaseVars, statsVars>>

(* calculateFertilityStats (lines 22-68).  The cycles are CycleLogs         *)
(* [startDate, ended, length], endDate being startDate + length when       *)
(* ended; cycleRegularity is in ten-thousandths and confidenceLevel in     *)
(* hundredths, truncated.                                                  *)

MINIMUM_CYCLES_FOR_PREDICTION == 3
AVERAGE_LUTEAL_PHASE == 14

MaxHistory == 4

NoFertilityStats ==
    [cycles |-> << >>, status |-> "none", averageOvulationDay |-> 0,
     confidenceLevel |-> 0, ovulationDays |-> << >>, cycleLengths |-> << >>]

(* lines 27-31 *)
StatsCycleLengths(cs) ==
    LET all == [i \in 1..Len(cs) |->
                   IF cs[i].ended
                   THEN differenceInDays(addDays(cs[i].startDate, cs[i].length), cs[i].startDate)
                   ELSE 0]
    IN  SelectSeq(all, LAMBDA length : length > 0)

(* lines 34-41: nextCycle is the element after cycle in the list *)
OvulationDays(cs) ==
    [index \in 1..(Len(cs) - 1) |->
        differenceInDays(cs[index + 1].startDate, cs[index].startDate) - AVERAGE_LUTEAL_PHASE]

(* lines 44-53 *)
StatsConfidenceLevel(cs) ==
    LET lengths == StatsCycleLengths(cs)
        n == Len(lengths)
        S == Reduce(lengths, 1, FALSE)
        Q == Reduce(lengths, 1, TRUE)
        root == MathSqrt(10000 * (n * Q - S * S))
        ratio == (100 * root) \div S
        cycleRegularity == IF ratio > 10000 THEN 0 ELSE 10000 - ratio
        countFactor == IF Len(cs) >= 12 THEN 10000 ELSE (10000 * Len(cs)) \div 12
        level == (7 * cycleRegularity + 3 * countFactor) \div 1000
    IN  IF n = 0 THEN NaN
        ELSE IF level > 100 THEN 100 ELSE level

calculateFertilityStats(cs) ==
    IF Len(cs) < MINIMUM_CYCLES_FOR_PREDICTION
    THEN [cycles |-> cs, status |-> "threw", averageOvulationDay |-> 0,
          confidenceLevel |-> 0, ovulationDays |-> << >>, cycleLengths |-> << >>]
    ELSE LET ovulationDays == OvulationDays(cs)
         IN  [cycles |-> cs, status |-> "ok",
              averageOvulationDay |->
                  MathRound(Reduce(ovulationDays, 1, FALSE), Len(ovulationDays)),
              confidenceLevel |-> StatsConfidenceLevel(cs),
              ovulationDays |-> ovulationDays,
              cycleLengths |-> StatsCycleLengths(cs)]

(* calculateFertilityStats applied to the history held *)
CalculateFertilityStats ==
    /\ fertilityStats.status = "none"
    /\ fertilityStats' = calculateFertilityStats(fertilityStats.cycles)
    /\ UNCHANGED <<ovulation, dailyStatus>>
    /\ UNCHANGED <<engineVars, summaryVars, dataVars, pageVars, phaseVars>>

(* predictNextOvulation applied to the history and the stats computed from it *)
PredictFromStats ==
    /\ fertilityStats.status = "ok"
    /\ ovulation = NoOvulation
    /\ ovulation' = predictNextOvulation(fertilityStats.cycles,
                        [averageOvulationDay |-> fertilityStats.averageOvulationDay,
                         confidenceLevel |-> fertilityStats.confidenceLevel])
    /\ UNCHANGED <<dailyStatus, fertilityStats>>
    /\ UNCHANGED <<engineVars, summaryVars, dataVars, pageVars, phaseVars>>

----------------------------------------------------------------------------
(* CycleDataService (CycleDataService.ts)                                  *)
(*                                                                         *)
(* store holds the documents of the collection that belong to the user of  *)
(* the service, each [id, startDate, endDate, flow].  addDoc gives a new   *)
(* document an id of its own choosing: any id not in use.  A query without *)
(* orderBy returns the documents in the order of their ids.                *)

MaxDocs == 2

DocIds == 1..MaxDocs

NoError == "null"

(* Logs handed to savePeriodLog.  NoDate stands for a date that is null or *)
(* undefined.                                                              *)
DataLogInputs ==
    { [startDate |-> 0,      endDate |-> 4,  flow |-> "medium"],
      [startDate |-> 28,     endDate |-> 32, flow |-> "heavy"],
      [startDate |-> 28,     endDate |-> 26, flow |-> "medium"],
      [startDate |-> 57,     endDate |-> 60, flow |-> "spotting"],
      [startDate |-> NoDate, endDate |-> 4,  flow |-> "light"] }

(* Partial<PeriodLog> handed to updatePeriodLog: NoDate and "" stand for a *)
(* field that is absent.                                                   *)
UpdateInputs ==
    { [startDate |-> NoDate, endDate |-> 2,      flow |-> ""],
      [startDate |-> 50,     endDate |-> NoDate, flow |-> ""],
      [startDate |-> NoDate, endDate |-> NoDate, flow |-> "light"] }

NoLog == [startDate |-> NoDate, endDate |-> NoDate, flow |-> ""]

NoCall == [op |-> "none", id |-> 0, log |-> NoLog, result |-> "none", logs |-> << >>]

(* validatePeriodLog without the test of lines 30-32 *)
validatePeriodLog_NoDateOrder(log) ==
    IF log.startDate = NoDate \/ log.endDate = NoDate
    THEN "Start date and end date are required"
    ELSE IF log.flow \notin {"light", "medium", "heavy"}
    THEN "Invalid flow intensity"
    ELSE NoError

(* lines 26-37 *)
validatePeriodLog(log) ==
    IF log.startDate = NoDate \/ log.endDate = NoDate
    THEN "Start date and end date are required"
    ELSE IF log.endDate < log.startDate
    THEN "End date cannot be before start date"
    ELSE IF log.flow \notin {"light", "medium", "heavy"}
    THEN "Invalid flow intensity"
    ELSE NoError

FreeIds(docs) == DocIds \ {d.id : d \in docs}

(* lines 48-57: the document addDoc writes *)
NewDoc(id, log) ==
    [id |-> id, startDate |-> log.startDate, endDate |-> log.endDate, flow |-> log.flow]

(* lines 69-74: the documents of the user, in the order of their ids *)
RECURSIVE QuerySnapshot(_, _)
QuerySnapshot(docs, id) ==
    IF id > MaxDocs THEN << >>
    ELSE (IF \E d \in docs : d.id = id
          THEN << CHOOSE d \in docs : d.id = id >>
          ELSE << >>) \o QuerySnapshot(docs, id + 1)

(* lines 66-93 *)
getPeriodLogs(docs) == SortDescByStart(QuerySnapshot(docs, 1))

(* lines 98-110: the fields updateDoc overwrites *)
UpdatedDoc(d, updates) ==
    [id |-> d.id,
     startDate |-> IF updates.startDate # NoDate THEN updates.startDate ELSE d.startDate,
     endDate |-> IF updates.endDate # NoDate THEN updates.endDate ELSE d.endDate,
     flow |-> IF updates.flow # "" THEN updates.flow ELSE d.flow]

(* lines 39-64: the call throws the validation error, or adds a document *)
SavePeriodLog(log) ==
    LET validationError == validatePeriodLog(log)
    IN  /\ IF validationError # NoError
           THEN /\ store' = store
                /\ lastCall' = [op |-> "savePeriodLog", id |-> 0, log |-> log,
                                result |-> validationError, logs |-> << >>]
           ELSE \E id \in FreeIds(store) :
                /\ store' = store \cup {NewDoc(id, log)}
                /\ lastCall' = [op |-> "savePeriodLog", id |-> id, log |-> log,
                                result |-> "ok", logs |-> << >>]
        /\ UNCHANGED <<engineVars, summaryVars, fertilityVars, pageVars, phaseVars, statsVars>>

(* lines 66-93 *)
GetPeriodLogs ==
    /\ lastCall' = [op |-> "getPeriodLogs", id |-> 0, log |-> NoLog,
                    result |-> "ok", logs |-> getPeriodLogs(store)]
    /\ UNCHANGED store
    /\ UNCHANGED <<engineVars, summaryVars, fertilityVars, pageVars, phaseVars, statsVars>>

(* lines 95-118: updateDoc fails when there is no document with the id *)
UpdatePeriodLog(logId, updates) ==
    /\ IF \E d \in store : d.id = logId
       THEN LET d == CHOOSE e \in store : e.id = logId
            IN  /\ store' = (store \ {d}) \cup {UpdatedDoc(d, updates)}
                /\ lastCall' = [op |-> "updatePeriodLog", id |-> logId, log |-> updates,
                                result |-> "ok", logs |-> << >>]
       ELSE /\ store' = store
            /\ lastCall' = [op |-> "updatePeriodLog", id |-> logId, log |-> updates,
                            result |-> "not-found", logs |-> << >>]
    /\ UNCHANGED <<engineVars, summaryVars, fertilityVars, pageVars, phaseVars, statsVars>>

(* lines 120-129: deleteDoc succeeds whether the document exists or not *)
DeletePeriodLog(logId) ==
    /\ store' = {d \in store : d.id # logId}
    /\ lastCall' = [op |-> "deletePeriodLog", id |-> logId, log |-> NoLog,
                    result |-> "ok", logs |-> << >>]
    /\ UNCHANGED <<engineVars, summaryVars, fertilityVars, pageVars, phaseVars, statsVars>>

(* lines 131-144: the query and the deletions, taken as one step *)
DeleteAllUserLogs ==
    /\ store' = {}
    /\ lastCall' = [op |-> "deleteAllUserLogs", id |-> 0, log |-> NoLog,
                    result |-> "ok", logs |-> << >>]
    /\ UNCHANGED <<engineVars, summaryVars, fertilityVars, pageVars, phaseVars, statsVars>>

----------------------------------------------------------------------------
(* CyclePage (part_008)                                                    *)
(*                                                                         *)
(* The page owns one CycleCalculationService (line 17): its log list is    *)
(* periodLogs.  Each await of a handler ends a step: the repository call   *)
(* it waits for completes in a step of its own, at any later time.         *)

MaxLoads == 2

(* new Date() of lines 55 and 112: the day on which the page is open *)
Today == 40

(* Logs the PeriodLogForm hands to handleLogSubmit: both dates are set and *)
(* the flow is one of the form's three; the end date is the user's choice. *)
FormLogInputs ==
    { [startDate |-> 0,  endDate |-> 4,  flow |-> "medium"],
      [startDate |-> 28, endDate |-> 32, flow |-> "heavy"],
      [startDate |-> 28, endDate |-> 26, flow |-> "medium"] }

(* Logs handed to savePeriodLog by a caller other than the page: those    *)
(* that end before they start                                              *)
RejectedLogInputs == {log \in DataLogInputs : log.endDate < log.startDate}

NoSubmit == [status |-> "none", log |-> NoLog]

(* loads: the number of runs that wait for getPeriodLogs (issued) and the  *)
(* bag of the log arrays of the runs whose getPeriodLogs has returned and  *)
(* which have not gone on yet (fetched)                                    *)
NoLoads == [issued |-> 0, fetched |-> EmptyBag]

InFlight == loads.issued + BagCardinality(loads.fetched)

(* lines 45-49 and 105-109: the log handed to addPeriodLog, of which the   *)
(* engine reads the two dates                                              *)
PeriodLogOf(log) == [startDate |-> log.startDate, endDate |-> log.endDate]

(* lines 43-52: addPeriodLog for each fetched log *)
RECURSIVE AddAll(_, _, _)
AddAll(acc, logs, i) ==
    IF i > Len(logs) THEN acc
    ELSE LET added == SortDescByStart(Append(acc, PeriodLogOf(logs[i])))
         IN  IF Len(added) >= 0 THEN AddAll(added, logs, i + 1) ELSE added

(* lines 55-57 and 112-113: predictNextCycle(new Date()) on the service,   *)
(* whose log list is logs, and setCycleDays                                *)
ShowPredictions(logs) ==
    LET predictions == predictNextCycle(logs, Today)
    IN  /\ cycleDays' = predictions
        /\ displayed' = predictions
        /\ op' = "predictNextCycle"
        /\ fromDate' = Today
        /\ phaseInfo' = NoPhaseInfo
        /\ fertilityInfo' = NoFertilityInfo
        /\ repeated' = FALSE

(* lines 24-33: a run of loadPeriodLogs starts (the effect of line 81, the *)
(* interval of line 84) and waits for getPeriodLogs                        *)
LoadPeriodLogs ==
    /\ InFlight < MaxLoads
    /\ loads' = [loads EXCEPT !.issued = @ + 1]
    /\ isLoading' = TRUE
    /\ UNCHANGED <<displayed, submit>>
    /\ UNCHANGED <<engineVars, summaryVars, fertilityVars, dataVars, phaseVars, statsVars>>

(* CycleDataService lines 66-93, for a run that waits: the query reads the *)
(* collection as it is now                                                 *)
GetDocsReturns ==
    /\ loads.issued > 0
    /\ loads' = [issued |-> loads.issued - 1,
                 fetched |-> loads.fetched (+) SetToBag({getPeriodLogs(store)})]
    /\ lastCall' = [op |-> "getPeriodLogs", id |-> 0, log |-> NoLog,
                    result |-> "ok", logs |-> getPeriodLogs(store)]
    /\ UNCHANGED store
    /\ UNCHANGED <<displayed, isLoading, submit>>
    /\ UNCHANGED <<engineVars, summaryVars, fertilityVars, phaseVars, statsVars>>

(* lines 34-74: a run goes on with the logs it fetched *)
LoadResume(logs) ==
    /\ BagIn(logs, loads.fetched)
    /\ LET sortedLogs == SortDescByStart(logs)
           added == AddAll(<< >>, sortedLogs, 1)
       IN  /\ periodLogs' = added
           /\ ShowPredictions(added)
    /\ isLoading' = FALSE
    /\ loads' = [loads EXCEPT !.fetched = @ (-) SetToBag({logs})]
    /\ UNCHANGED submit
    /\ UNCHANGED <<summaryVars, fertilityVars, dataVars, phaseVars, statsVars>>

(* lines 89-102: the form is on screen only when isLoading is false (line  *)
(* 143) and submits only when isSaving is false (line 414).  The run ends   *)
(* at the toast of line 97, or in the catch of line 122 when savePeriodLog *)
(* throws, or waits for addDoc.                                            *)
HandleLogSubmit(log) ==
    /\ ~isLoading
    /\ submit.status \notin {"saving", "landed"}
    /\ IF log.endDate < log.startDate
       THEN /\ submit' = [status |-> "rejected", log |-> log]
            /\ UNCHANGED lastCall
       ELSE IF validatePeriodLog(log) # NoError
       THEN /\ submit' = [status |-> "failed", log |-> log]
            /\ lastCall' = [op |-> "savePeriodLog", id |-> 0, log |-> log,
                            result |-> validatePeriodLog(log), logs |-> << >>]
       ELSE /\ FreeIds(store) # {}
            /\ Len(periodLogs) < MaxLogs
            /\ submit' = [status |-> "saving", log |-> log]
            /\ UNCHANGED lastCall
    /\ UNCHANGED store
    /\ UNCHANGED <<displayed, isLoading, loads>>
    /\ UNCHANGED <<engineVars, summaryVars, fertilityVars, phaseVars, statsVars>>

(* CycleDataService lines 57-59, for the run that waits: addDoc writes the *)
(* document                                                                *)
AddDocReturns ==
    /\ submit.status = "saving"
    /\ \E id \in FreeIds(store) :
          /\ store' = store \cup {NewDoc(id, submit.log)}
          /\ lastCall' = [op |-> "savePeriodLog", id |-> id, log |-> submit.log,
                          result |-> "ok", logs |-> << >>]
    /\ submit' = [status |-> "landed", log |-> submit.log]
    /\ UNCHANGED <<displayed, isLoading, loads>>
    /\ UNCHANGED <<engineVars, summaryVars, fertilityVars, phaseVars, statsVars>>

(* lines 104-127: the run goes on after savePeriodLog and starts a run of  *)
(* loadPeriodLogs (line 121), which waits for getPeriodLogs                *)
SubmitResume ==
    /\ submit.status = "landed"
    /\ Len(periodLogs) < MaxLogs
    /\ InFlight < MaxLoads
    /\ LET added == SortDescByStart(Append(periodLogs, PeriodLogOf(submit.log)))
       IN  /\ periodLogs' = added
           /\ ShowPredictions(added)
    /\ submit' = [status |-> "saved", log |-> submit.log]
    /\ loads' = [loads EXCEPT !.issued = @ + 1]
    /\ isLoading' = TRUE
    /\ UNCHANGED <<summaryVars, fertilityVars, dataVars, phaseVars, statsVars>>

----------------------------------------------------------------------------
(* CycleCalculationService.calculateCurrentPhase (static, lines 297-336)   *)
(*                                                                         *)
(* The method reads the clock (new Date()); the day it reads is the        *)
(* argument today of the operator.  PHASE_INFO[phase] is a constant of the *)
(* phase and is left out of the result.                                    *)

PhaseDates == 0..60
PhaseCycleLengths == {21, 28, 35}
ClockDays == {40, 56}

NoCyclePhase ==
    [lastPeriodDate |-> NoDate, cycleLength |-> 0, today |-> NoDate,
     phase |-> "none", dayOfCycle |-> 0, daysUntilNextPhase |-> 0, nextPeriodIn |-> 0]

calculateCurrentPhase(lastPeriodDate, cycleLength, today) ==
    LET dayOfCycle == differenceInDays(today, lastPeriodDate) + 1
        phase == IF dayOfCycle <= 5 THEN "menstrual"
                 ELSE IF dayOfCycle <= 12 THEN "follicular"
                 ELSE IF dayOfCycle <= 16 THEN "ovulation"
                 ELSE "luteal"
        daysUntilNextPhase ==
                 IF dayOfCycle <= 5 THEN 5 - dayOfCycle + 1
                 ELSE IF dayOfCycle <= 12 THEN 12 - dayOfCycle + 1
                 ELSE IF dayOfCycle <= 16 THEN 16 - dayOfCycle + 1
                 ELSE cycleLength - dayOfCycle + 1
        nextPeriodDate == addDays(lastPeriodDate, cycleLength)
    IN  [phase |-> phase,
         dayOfCycle |-> dayOfCycle,
         daysUntilNextPhase |-> daysUntilNextPhase,
         nextPeriodIn |-> differenceInDays(nextPeriodDate, today)]

CalculateCurrentPhase(lastPeriodDate, cycleLength, today) ==
    /\ LET r == calculateCurrentPhase(lastPeriodDate, cycleLength, today)
       IN  cyclePhase' = [lastPeriodDate |-> lastPeriodDate,
                          cycleLength |-> cycleLength,
                          today |-> today,
                          phase |-> r.phase,
                          dayOfCycle |-> r.dayOfCycle,
                          daysUntilNextPhase |-> r.daysUntilNextPhase,
                          nextPeriodIn |-> r.nextPeriodIn]
    /\ UNCHANGED <<engineVars, summaryVars, fertilityVars, dataVars, pageVars, statsVars>>

EngineInit ==
    /\ periodLogs = << >>
    /\ op = "new"
    /\ fromDate = NoDate
    /\ cycleDays = << >>
    /\ phaseInfo = NoPhaseInfo
    /\ fertilityInfo = NoFertilityInfo
    /\ repeated = FALSE

OutsideInit ==
    /\ ovulation = NoOvulation
    /\ dailyStatus = << >>
    /\ store = {}
    /\ lastCall = NoCall
    /\ displayed = << >>
    /\ isLoading = TRUE
    /\ submit = NoSubmit
    /\ loads = NoLoads
    /\ cyclePhase = NoCyclePhase
    /\ fertilityStats = NoFertilityStats

Init ==
    /\ EngineInit
    /\ cycles = << >>
    /\ prediction = NoPrediction
    /\ confCalls = << >>
    /\ OutsideInit

SummaryInit ==
    /\ EngineInit
    /\ cycles \in { WithStartDates(cs) : cs \in SeqsUpTo(CycleInputs, MaxCycles) }
    /\ prediction = NoPrediction
    /\ confCalls = << >>
    /\ OutsideInit

SummaryNext ==
    \/ SummaryPredict
    \/ \E cycleCount \in MIN_CYCLES_FOR_PREDICTION..MaxCount : CallConfidence(cycleCount)

SpecSummary == SummaryInit /\ [][SummaryNext]_vars

WeightedInit ==
    /\ EngineInit
    /\ cycles \in { WithStartDates(cs) : cs \in SeqsUpTo(WeightedCycleInputs, MaxRecent) }
    /\ prediction = NoPrediction
    /\ confCalls = << >>
    /\ OutsideInit

SpecWeighted == WeightedInit /\ [][SummaryPredict]_vars

Next ==
    \/ clearLogs
    \/ \E log \in LogInputs : addPeriodLog(log)
    \/ \E from \in FromDates : PredictNextCycle(from)
    \/ \E date \in FromDates : GetCurrentPhase(date)
    \/ \E date \in FromDates : GetFertilityInfo(date)

Spec == Init /\ [][Next]_vars

FertilityNext ==
    \/ \E cs \in FertilityCycleInputs, stats \in StatsInputs : PredictNextOvulation(cs, stats)
    \/ \E startDate \in RangeStarts, endDate \in RangeEnds :
          CalculateDailyFertilityStatus(startDate, endDate)

SpecFertility == Init /\ [][FertilityNext]_vars

StatsInit ==
    /\ EngineInit
    /\ cycles = << >>
    /\ prediction = NoPrediction
    /\ confCalls = << >>
    /\ ovulation = NoOvulation
    /\ dailyStatus = << >>
    /\ store = {}
    /\ lastCall = NoCall
    /\ displayed = << >>
    /\ isLoading = TRUE
    /\ submit = NoSubmit
    /\ loads = NoLoads
    /\ cyclePhase = NoCyclePhase
    /\ \E cs \in SeqsUpTo(CycleInputs, MaxHistory) :
          fertilityStats = [NoFertilityStats EXCEPT !.cycles = WithStartDates(cs)]

StatsNext ==
    \/ CalculateFertilityStats
    \/ PredictFromStats

SpecStats == StatsInit /\ [][StatsNext]_vars

DataNext ==
    \/ \E log \in DataLogInputs : SavePeriodLog(log)
    \/ GetPeriodLogs
    \/ \E logId \in DocIds, updates \in UpdateInputs : UpdatePeriodLog(logId, updates)
    \/ \E logId \in DocIds : DeletePeriodLog(logId)
    \/ DeleteAllUserLogs

SpecData == Init /\ [][DataNext]_vars

PageNext ==
    \/ LoadPeriodLogs
    \/ GetDocsReturns
    \/ \E logs \in BagToSet(loads.fetched) : LoadResume(logs)
    \/ \E log \in FormLogInputs : HandleLogSubmit(log)
    \/ AddDocReturns
    \/ SubmitResume
    \/ \E log \in RejectedLogInputs : SavePeriodLog(log)

SpecPage == Init /\ [][PageNext]_vars

PhaseNext ==
    \E lastPeriodDate \in PhaseDates, cycleLength \in PhaseCycleLengths, today \in ClockDays :
        CalculateCurrentPhase(lastPeriodDate, cycleLength, today)

SpecPhase == Init /\ [][PhaseNext]_vars


----------------------------------------------------------------------------
(* Properties of CycleCalculationService *)

RECURSIVE SumSeq(_, _)
SumSeq(s, i) == IF i > Len(s) THEN 0 ELSE s[i] + SumSeq(s, i + 1)

(* r is n / d rounded to the nearest integer, a tie going up *)
IsRounded(r, n, d) == 2 * r * d - d <= 2 * n /\ 2 * n < 2 * r * d + d

(* the start dates of the logs, oldest first *)
ChronoStarts(logs) ==
    SortSeq([k \in 1..Len(logs) |-> logs[k].startDate], LAMBDA a, b : a < b)

(* the day differences between chronologically adjacent start dates *)
Candidates(logs) ==
    LET s == ChronoStarts(logs)
    IN  [k \in 1..(Len(logs) - 1) |-> s[k + 1] - s[k]]

SurvivingCandidates(logs) == SelectSeq(Candidates(logs), LAMBDA c : c >= 21 /\ c <= 35)

PeriodLengths(logs) == [k \in 1..Len(logs) |-> logs[k].endDate - logs[k].startDate + 1]

InRangePeriodLengths(logs) == SelectSeq(PeriodLengths(logs), LAMBDA p : p >= 3 /\ p <= 10)

LatestStart(logs) ==
    CHOOSE d \in {logs[k].startDate : k \in 1..Len(logs)} :
        \A k \in 1..Len(logs) : logs[k].startDate <= d

(* C1: with an empty log list the average cycle length is 28 and the       *)
(* average period length is 5.                                             *)
C1_EmptyDefaults ==
    Len(periodLogs) = 0 =>
        /\ calculateAverageCycleLength(periodLogs) = 28
        /\ calculateAveragePeriodLength(periodLogs) = 5

(* C2: with at least 2 logs the average cycle length is the rounded mean   *)
(* of the gaps between chronologically adjacent start dates that lie in    *)
(* [21,35]; gaps outside that range have no influence; 28 if none survive. *)
C2_AverageCycleLength ==
    Len(periodLogs) >= 2 =>
        LET surv == SurvivingCandidates(periodLogs)
            r == calculateAverageCycleLength(periodLogs)
        IN  IF Len(surv) = 0 THEN r = 28
            ELSE IsRounded(r, SumSeq(surv, 1), Len(surv))

C2_Witness ==
    /\ Len(periodLogs) = 4
    /\ Candidates(periodLogs) = <<28, 29, 60>>
    /\ calculateAverageCycleLength(periodLogs) = 29

(* C3: when at least one log has a period length in [3,10], the average    *)
(* period length is the rounded mean of exactly the in-range lengths.      *)
C3_AveragePeriodLength ==
    LET inr == InRangePeriodLengths(periodLogs)
    IN  Len(inr) >= 1 =>
            IsRounded(calculateAveragePeriodLength(periodLogs), SumSeq(inr, 1), Len(inr))

C3_Witness ==
    /\ Len(InRangePeriodLengths(periodLogs)) = 2
    /\ Len(periodLogs) = 4
    /\ SumSeq(InRangePeriodLengths(periodLogs), 1) = 9
    /\ calculateAveragePeriodLength(periodLogs) = 5

(* the anchor as C4 states it *)
ClaimedAnchor(logs, from) ==
    LET S == LatestStart(logs)
        c == calculateAverageCycleLength(logs)
    IN  IF from > S
        THEN S + c * (CHOOSE k \in 1..(from - S + 1) :
                        /\ S + k * c >= from
                        /\ \A j \in 1..(k - 1) : S + j * c < from)
        ELSE S

(* C4: the anchor of predictNextCycle is S + k*c for the smallest k >= 1   *)
(* with S + k*c >= fromDate when fromDate is after the latest start S (so  *)
(* fromDate itself when it is a whole number of cycles after S), else S.   *)
C4_Anchor ==
    (op = "predictNextCycle" /\ Len(periodLogs) > 0) =>
        NextPeriodStart(periodLogs, fromDate) = ClaimedAnchor(periodLogs, fromDate)

(* C5: the anchor of the first projected cycle is on or after fromDate and *)
(* no predicted entry of the output is dated before fromDate.              *)
C5_NotInThePast ==
    (op = "predictNextCycle" /\ Len(periodLogs) > 0) =>
        /\ NextPeriodStart(periodLogs, fromDate) >= fromDate
        /\ \A k \in 1..Len(cycleDays) :
              cycleDays[k].prediction => cycleDays[k].date >= fromDate

C5_Witness ==
    /\ op = "predictNextCycle"
    /\ Len(periodLogs) = 2
    /\ fromDate = 150
    /\ LatestStart(periodLogs) = 28
    /\ \E k \in 1..Len(cycleDays) : cycleDays[k].prediction /\ cycleDays[k].date = 168

(* C6: with an empty log list predictNextCycle returns the empty sequence, *)
(* getCurrentPhase returns phase 'unknown' and getFertilityInfo returns    *)
(* isFertile = false and isOvulation = false.                              *)
C6_EmptyLogs ==
    Len(periodLogs) = 0 =>
        /\ op = "predictNextCycle" => cycleDays = << >>
        /\ op = "getCurrentPhase" => phaseInfo.phase = "unknown"
        /\ op = "getFertilityInfo" =>
              ~fertilityInfo.isFertile /\ ~fertilityInfo.isOvulation

C6_Witness ==
    /\ Len(periodLogs) = 0
    /\ op = "predictNextCycle"
    /\ fromDate = 40
    /\ repeated

----------------------------------------------------------------------------
(* Properties of CyclePredictionService *)

C9_MonotonicConfidence ==
    Len(confCalls) = 2 =>
        LET later == confCalls[1]
            earlier == confCalls[2]
        IN  /\ (earlier.confidence = NaN) = (later.confidence = NaN)
            /\ earlier.count <= later.count => earlier.confidence <= later.confidence
            /\ (earlier.count > 12 /\ later.count > 12)
                  => earlier.confidence = later.confidence

C9_Witness ==
    /\ Len(confCalls) = 2
    /\ confCalls[2].count = 3 /\ confCalls[2].confidence = 70
    /\ confCalls[1].count = 12 /\ confCalls[1].confidence = 100

(* 100 * variance >= 9 * mean^2, that is stddev / mean >= 0.3 *)
CvAtLeast03(lengths) ==
    LET n == Len(lengths)
        S == Reduce(lengths, 1, FALSE)
        Q == Reduce(lengths, 1, TRUE)
    IN  100 * (n * Q - S * S) >= 9 * S * S

AllEqual(lengths) == \A i, j \in 1..Len(lengths) : lengths[i] = lengths[j]

(* C10: for every list of at least 3 cycles regularityScore is a number in *)
(* [0,100], 0 whenever stddev / mean >= 0.3 and 100 whenever the lengths   *)
(* do not vary, lists without any recorded length included.                *)
C10_RegularityScore ==
    prediction.status = "ok" =>
        /\ prediction.regularityScore >= 0 /\ prediction.regularityScore <= 10000
        /\ (Len(Lengths(cycles)) > 0 /\ CvAtLeast03(Lengths(cycles)))
              => prediction.regularityScore = 0
        /\ AllEqual(Lengths(cycles)) => prediction.regularityScore = 10000

----------------------------------------------------------------------------
(* Properties of FertilityPredictionService *)

(* the calendar days that a window of the given type holds, both bounds    *)
(* included                                                                *)
WindowDays(pred, type) ==
    {d \in (pred.expectedDate - 10)..(pred.expectedDate + 10) :
        \E k \in 1..Len(pred.fertilityWindows) :
            /\ pred.fertilityWindows[k].type = type
            /\ d >= pred.fertilityWindows[k].start
            /\ d <= pred.fertilityWindows[k].end}

InSomeWindow(pred, d) ==
    \E k \in 1..Len(pred.fertilityWindows) :
        d >= pred.fertilityWindows[k].start /\ d <= pred.fertilityWindows[k].end

(* C11: for every ovulation date O the windows of predictNextOvulation     *)
(* cover exactly: highly-fertile the 3 days O-3..O-1, fertile the 2 days   *)
(* O..O+1, less-fertile the 2 days O-5..O-4; no day is in two windows.     *)
C11_Windows ==
    ovulation # NoOvulation =>
        LET O == ovulation.expectedDate
        IN  /\ WindowDays(ovulation, "HIGHLY_FERTILE") = (O - 3)..(O - 1)
            /\ WindowDays(ovulation, "FERTILE") = O..(O + 1)
            /\ WindowDays(ovulation, "LESS_FERTILE") = (O - 5)..(O - 4)
            /\ \A a, b \in {"HIGHLY_FERTILE", "FERTILE", "LESS_FERTILE"} :
                  a # b => WindowDays(ovulation, a) \cap WindowDays(ovulation, b) = {}

(* C12: for every date inside a window returned by predictNextOvulation    *)
(* the phase determineFertilityPhase reports is FOLLICULAR or OVULATION,   *)
(* never LUTEAL.                                                           *)
C12_WindowContainment ==
    \A k \in 1..Len(dailyStatus) :
        InSomeWindow(ovulation, dailyStatus[k].date)
            => dailyStatus[k].phase \in {"FOLLICULAR", "OVULATION"}

(* C13: the daily probability of a date d is 0.3*q on the 3 days before    *)
(* the ovulation date O, 0.2*q on O and O+1, 0.1*q on O-5 and O-4, and 0   *)
(* on every other date, q being the confidence.                            *)
C13_DailyProbability ==
    \A k \in 1..Len(dailyStatus) :
        LET n == dailyStatus[k].date - ovulation.expectedDate
            q == ovulation.confidence
        IN  dailyStatus[k].probability =
                IF n \in (-3)..(-1) THEN 3 * q
                ELSE IF n \in 0..1 THEN 2 * q
                ELSE IF n \in (-5)..(-4) THEN 1 * q
                ELSE 0

(* C14: determineFertilityPhase returns, for the whole-day difference      *)
(* n = date - ovulation date, OVULATION when n = 0, FOLLICULAR when        *)
(* -5 <= n <= -1, LUTEAL when 1 <= n <= 14 and FOLLICULAR for every other  *)
(* n; it never returns MENSTRUAL.                                          *)
C14_PhaseByDifference ==
    \A k \in 1..Len(dailyStatus) :
        LET n == dailyStatus[k].date - ovulation.expectedDate
        IN  /\ dailyStatus[k].phase \in {"FOLLICULAR", "OVULATION", "LUTEAL"}
            /\ dailyStatus[k].phase =
                  IF n = 0 THEN "OVULATION"
                  ELSE IF n >= 1 /\ n <= 14 THEN "LUTEAL"
                  ELSE "FOLLICULAR"

C14_Witness ==
    /\ ovulation.expectedDate = 74
    /\ Len(dailyStatus) = 27
    /\ dailyStatus[1].date = 66 /\ dailyStatus[1].phase = "FOLLICULAR"
    /\ dailyStatus[4].date = 69 /\ dailyStatus[4].phase = "FOLLICULAR"
    /\ dailyStatus[9].date = 74 /\ dailyStatus[9].phase = "OVULATION"
    /\ dailyStatus[23].date = 88 /\ dailyStatus[23].phase = "LUTEAL"
    /\ dailyStatus[24].date = 89 /\ dailyStatus[24].phase = "FOLLICULAR"

----------------------------------------------------------------------------
(* Properties of the output of predictNextCycle *)

(* the earliest date after the given one among the entries of a phase in   *)
(* phases, NoDate when there is none                                       *)
NearestAfter(days, date, phases) ==
    LET later == {days[k].date : k \in {j \in 1..Len(days) :
                        days[j].date > date /\ days[j].phase \in phases}}
    IN  IF later = {} THEN NoDate
        ELSE CHOOSE d \in later : \A e \in later : d <= e

(* C15: the sequence predictNextCycle returns is ordered by date, never    *)
(* decreasing, so the first entry after a date that getCurrentPhase and    *)
(* getFertilityInfo find is the chronologically nearest one.               *)
C15_Ascending ==
    /\ op = "predictNextCycle" =>
          \A k \in 1..(Len(cycleDays) - 1) : cycleDays[k].date <= cycleDays[k + 1].date
    /\ (op = "getFertilityInfo" /\ Len(periodLogs) > 0) =>
          LET days == predictNextCycle(periodLogs, fromDate)
          IN  /\ fertilityInfo.nextOvulation = NearestAfter(days, fromDate, {"ovulation"})
              /\ fertilityInfo.nextFertileStart =
                    NearestAfter(days, fromDate, {"fertile", "ovulation"})
    /\ (op = "getCurrentPhase" /\ Len(periodLogs) > 0 /\ phaseInfo.daysUntil > 0) =>
          LET days == predictNextCycle(periodLogs, fromDate)
          IN  fromDate + phaseInfo.daysUntil = NearestAfter(days, fromDate, AllPhases)

(* three logs, pushed latest first, followed by the projected days *)
C15_Witness ==
    /\ op = "predictNextCycle"
    /\ Len(periodLogs) = 3
    /\ periodLogs[1].startDate = 57 /\ periodLogs[3].startDate = 0
    /\ cycleDays[1].date = 0
    /\ \E k \in 1..Len(cycleDays) : cycleDays[k].prediction
    /\ \E k \in 1..Len(cycleDays) : ~cycleDays[k].prediction /\ cycleDays[k].date = 57

(* the calendar date is a day of one of the logged periods *)
Logged(logs, date) ==
    \E k \in 1..Len(logs) : logs[k].startDate <= date /\ date <= logs[k].endDate

(* C18: for every log and every offset i from 0 to endDate - startDate the *)
(* output holds an entry dated startDate + i with phase 'period',          *)
(* prediction = false and intensity heavy for i = 0, medium for i = 1,     *)
(* light for i >= 2, whatever fromDate is; no entry with prediction =      *)
(* false has any other date.                                               *)
C18_PastPeriods ==
    op = "predictNextCycle" =>
        /\ \A k \in 1..Len(periodLogs) :
              \A i \in 0..(periodLogs[k].endDate - periodLogs[k].startDate) :
                 \E j \in 1..Len(cycleDays) :
                    cycleDays[j] =
                       [date |-> periodLogs[k].startDate + i, phase |-> "period",
                        intensity |-> IF i = 0 THEN "heavy"
                                      ELSE IF i = 1 THEN "medium" ELSE "light",
                        prediction |-> FALSE]
        /\ \A j \in 1..Len(cycleDays) :
              ~cycleDays[j].prediction => Logged(periodLogs, cycleDays[j].date)

(* the logs 28..32 and 28..38 together, the second 11 days long *)
C18_Witness ==
    /\ op = "predictNextCycle"
    /\ fromDate = 150
    /\ Len(periodLogs) = 2
    /\ \A k \in 1..2 : periodLogs[k].startDate = 28
    /\ \E j \in 1..Len(cycleDays) :
          cycleDays[j] = [date |-> 38, phase |-> "period",
                          intensity |-> "light", prediction |-> FALSE]

(* the anchor of projected cycle k and the date that is offset days from   *)
(* its ovulation day                                                       *)
AnchorOf(k) ==
    NextPeriodStart(periodLogs, fromDate) + k * calculateAverageCycleLength(periodLogs)

FertileDate(k, offset) ==
    AnchorOf(k) + calculateAverageCycleLength(periodLogs) - 14 + offset

PhaseAt(offset) == IF offset = 0 THEN "ovulation" ELSE "fertile"

(* the date is a day of one of the 3 projected periods *)
ProjectedPeriod(date) ==
    \E k \in 0..2 :
        AnchorOf(k) <= date /\ date < AnchorOf(k) + calculateAveragePeriodLength(periodLogs)

(* C19 as stated: for each of the 3 projected cycles the output holds an   *)
(* entry with phase 'ovulation' dated A_k + c - 14 and entries with phase  *)
(* 'fertile' on each of the 5 days before it, for every log list and       *)
(* fromDate.                                                               *)
C19_FertileDays ==
    (op = "predictNextCycle" /\ Len(periodLogs) > 0) =>
        \A k \in 0..2 : \A offset \in (-5)..0 :
            \E j \in 1..Len(cycleDays) :
                /\ cycleDays[j].date = FertileDate(k, offset)
                /\ cycleDays[j].phase = PhaseAt(offset)

(* C19: for each of the 3 projected cycles and each of the 6 dates from    *)
(* A_k + c - 19 to A_k + c - 14, the output holds an entry of that date;   *)
(* it has phase 'ovulation' (the last date) or 'fertile' (the 5 before)    *)
(* and prediction = true unless the date is a day of a logged or of a      *)
(* projected period, and then the date has phase 'period' only.            *)
C19_FertileUnlessTaken ==
    (op = "predictNextCycle" /\ Len(periodLogs) > 0) =>
        \A k \in 0..2 : \A offset \in (-5)..0 :
            LET date == FertileDate(k, offset)
                at == {j \in 1..Len(cycleDays) : cycleDays[j].date = date}
            IN  /\ at # {}
                /\ IF Logged(periodLogs, date) \/ ProjectedPeriod(date)
                   THEN \A j \in at : cycleDays[j].phase = "period"
                   ELSE \A j \in at : /\ cycleDays[j].phase = PhaseAt(offset)
                                      /\ cycleDays[j].prediction

(* the logs 36..40 and 57..60, a cycle of 21 days: of the first fertile    *)
(* window 59..64 the days 59 and 60 are logged days and 61 is a day of the *)
(* projected period 57..61                                                 *)
C19_Witness ==
    /\ op = "predictNextCycle"
    /\ fromDate = 0
    /\ Len(periodLogs) = 2
    /\ calculateAverageCycleLength(periodLogs) = 21
    /\ AnchorOf(0) = 57
    /\ FertileDate(0, -5) = 59 /\ Logged(periodLogs, 59)
    /\ ProjectedPeriod(61) /\ ~Logged(periodLogs, 61)
    /\ \A j \in 1..Len(cycleDays) :
          cycleDays[j].date \in 59..61 => cycleDays[j].phase = "period"
    /\ \E j \in 1..Len(cycleDays) : cycleDays[j].date = 62 /\ cycleDays[j].phase = "fertile"
    /\ \E j \in 1..Len(cycleDays) : cycleDays[j].date = 64 /\ cycleDays[j].phase = "ovulation"

(* C20: every entry with prediction = true has a date that no other entry  *)
(* of the output has, and a date of a logged period appears only with      *)
(* phase 'period' and prediction = false.                                  *)
C20_Deduplication ==
    op = "predictNextCycle" =>
        /\ \A j \in 1..Len(cycleDays) :
              cycleDays[j].prediction =>
                 \A i \in 1..Len(cycleDays) :
                    i # j => cycleDays[i].date # cycleDays[j].date
        /\ \A j \in 1..Len(cycleDays) :
              Logged(periodLogs, cycleDays[j].date) =>
                 cycleDays[j].phase = "period" /\ ~cycleDays[j].prediction

(* the first projected period starts on the latest log's start date, and   *)
(* all of its first days are logged days                                   *)
C20_Witness ==
    /\ op = "predictNextCycle"
    /\ fromDate = 0
    /\ Len(periodLogs) = 2
    /\ NextPeriodStart(periodLogs, fromDate) = 28
    /\ Logged(periodLogs, 28) /\ Logged(periodLogs, 32)
    /\ \A j \in 1..Len(cycleDays) : cycleDays[j].date = 28 => ~cycleDays[j].prediction
    /\ \E j \in 1..Len(cycleDays) :
          cycleDays[j].prediction /\ cycleDays[j].date = 56 /\ cycleDays[j].phase = "period"
    /\ \E j \in 1..Len(cycleDays) : cycleDays[j].prediction /\ cycleDays[j].phase = "ovulation"

----------------------------------------------------------------------------
(* Properties of CycleDataService and CyclePage *)

(* C16: after any sequence of savePeriodLog, updatePeriodLog,              *)
(* deletePeriodLog and deleteAllUserLogs calls every stored period log has *)
(* endDate >= startDate, and so has every log getPeriodLogs returns.       *)
C16_StoredLogsValid ==
    /\ \A d \in store : d.endDate >= d.startDate
    /\ \A k \in 1..Len(lastCall.logs) :
          lastCall.logs[k].endDate >= lastCall.logs[k].startDate

(* C17: savePeriodLog called with a log whose endDate is before its        *)
(* startDate fails with an error and adds no document; handleLogSubmit     *)
(* for such a log calls neither savePeriodLog nor addPeriodLog and leaves  *)
(* storage, the in-memory log list and the displayed cycleDays unchanged.  *)
C17_RejectedAtBoundary ==
    [][ /\ (/\ lastCall'.op = "savePeriodLog"
            /\ lastCall'.log.endDate < lastCall'.log.startDate)
           => /\ lastCall'.result = "End date cannot be before start date"
              /\ store' = store
        /\ (submit' # submit /\ submit'.log.endDate < submit'.log.startDate)
           => /\ submit'.status = "rejected"
              /\ lastCall' = lastCall
              /\ store' = store
              /\ periodLogs' = periodLogs
              /\ displayed' = displayed ]_vars

(* the page, showing the prediction of a stored log, has turned down the   *)
(* log 28..26, and savePeriodLog has thrown for it                         *)
C17_Witness ==
    /\ submit.status = "rejected"
    /\ submit.log.endDate < submit.log.startDate
    /\ lastCall.op = "savePeriodLog"
    /\ lastCall.log.endDate < lastCall.log.startDate
    /\ lastCall.result = "End date cannot be before start date"
    /\ store # {}
    /\ Len(periodLogs) = 1
    /\ displayed # << >>

----------------------------------------------------------------------------
(* Further properties of CycleCalculationService *)

(* C21: predictNextCycle projects exactly 3 cycles: every entry with       *)
(* prediction = true and phase 'period' is dated anchor + k*c + j for some *)
(* k in {0,1,2} and 0 <= j < p, each of the three anchors is a period day  *)
(* of the output, and no entry with prediction = true is dated on or after *)
(* anchor + 3*c.                                                           *)
C21_ThreeCycles ==
    (op = "predictNextCycle" /\ Len(periodLogs) > 0) =>
        /\ \A j \in 1..Len(cycleDays) :
              cycleDays[j].prediction =>
                 /\ cycleDays[j].phase = "period" => ProjectedPeriod(cycleDays[j].date)
                 /\ cycleDays[j].date < AnchorOf(3)
        /\ \A k \in 0..2 :
              \E j \in 1..Len(cycleDays) :
                 cycleDays[j].date = AnchorOf(k) /\ cycleDays[j].phase = "period"

(* the third projected period, 224..228, and the last ovulation day, 238   *)
C21_Witness ==
    /\ op = "predictNextCycle"
    /\ fromDate = 150
    /\ Len(periodLogs) = 2
    /\ AnchorOf(0) = 168 /\ AnchorOf(3) = 252
    /\ \E j \in 1..Len(cycleDays) :
          /\ cycleDays[j].prediction /\ cycleDays[j].phase = "period"
          /\ cycleDays[j].date = 228
    /\ \E j \in 1..Len(cycleDays) :
          cycleDays[j].phase = "ovulation" /\ cycleDays[j].date = 238

(* C23: calculateCurrentPhase classifies dayOfCycle 1..5 as menstrual,     *)
(* 6..12 as follicular, 13..16 as ovulation and every other dayOfCycle,    *)
(* also one below 1 (lastPeriodDate later than today), as luteal, where    *)
(* dayOfCycle is the number of whole days from lastPeriodDate to today,    *)
(* plus 1.                                                                 *)
C23_PhaseByDay ==
    cyclePhase # NoCyclePhase =>
        /\ cyclePhase.dayOfCycle = cyclePhase.today - cyclePhase.lastPeriodDate + 1
        /\ cyclePhase.phase =
              IF cyclePhase.dayOfCycle \in 1..5 THEN "menstrual"
              ELSE IF cyclePhase.dayOfCycle \in 6..12 THEN "follicular"
              ELSE IF cyclePhase.dayOfCycle \in 13..16 THEN "ovulation"
              ELSE "luteal"

(* C24: after any sequence of addPeriodLog and clearLogs calls periodLogs   *)
(* is sorted by start date descending: its first element has the latest    *)
(* start date, and the cycle-length candidates of the loop of              *)
(* calculateAverageCycleLength, logs[i].startDate - logs[i+1].startDate,   *)
(* are the differences between chronologically adjacent logs and are never *)
(* negative.                                                               *)
C24_SortedDescending ==
    /\ \A i \in 1..(Len(periodLogs) - 1) :
          /\ periodLogs[i].startDate >= periodLogs[i + 1].startDate
          /\ differenceInDays(periodLogs[i].startDate, periodLogs[i + 1].startDate) >= 0
          /\ differenceInDays(periodLogs[i].startDate, periodLogs[i + 1].startDate)
                = Candidates(periodLogs)[Len(periodLogs) - i]
    /\ Len(periodLogs) > 0 => periodLogs[1].startDate = LatestStart(periodLogs)

(* four logs, two of them with the same start date *)
C24_Witness ==
    /\ Len(periodLogs) = 4
    /\ op = "addPeriodLog"
    /\ [k \in 1..4 |-> periodLogs[k].startDate] = <<117, 57, 28, 28>>

(* the logs of the list in an order that the set of logs determines: by    *)
(* start date descending and, for equal start dates, by end date           *)
(* descending; addPeriodLog leaves the list in this order when the logs    *)
(* are added in it                                                         *)
CanonicalOrder(logs) ==
    SortSeq(logs, LAMBDA a, b :
                \/ a.startDate > b.startDate
                \/ (a.startDate = b.startDate /\ a.endDate > b.endDate))

(* C25: the result of predictNextCycle(fromDate) depends only on the logs  *)
(* held and on fromDate: whatever the order in which they were added, and  *)
(* whatever the service held before a clearLogs, the output is the one     *)
(* computed from the logs in their canonical order.                        *)
C25_OrderIndependent ==
    op = "predictNextCycle" =>
        cycleDays = predictNextCycle(CanonicalOrder(periodLogs), fromDate)

(* the logs 01-29..02-02 and 01-29..02-08 were added in this order, which  *)
(* is not the canonical one, next to the log 02-27..03-01                  *)
C25_Witness ==
    /\ op = "predictNextCycle"
    /\ fromDate = 40
    /\ periodLogs = << [startDate |-> 57, endDate |-> 60],
                       [startDate |-> 28, endDate |-> 32],
                       [startDate |-> 28, endDate |-> 38] >>
    /\ CanonicalOrder(periodLogs) # periodLogs

(* C26: for every log list, also one with logs whose date ranges overlap   *)
(* or that share a start date, and every fromDate, the output of           *)
(* predictNextCycle holds at most one entry per calendar date.             *)
C26_OneEntryPerDate ==
    op = "predictNextCycle" =>
        \A i, j \in 1..Len(cycleDays) :
            cycleDays[i].date = cycleDays[j].date => i = j

(* C27: for every log list calculateAverageCycleLength returns an integer  *)
(* in 21..35 and calculateAveragePeriodLength an integer in 3..10; hence   *)
(* the predicted period is shorter than the cycle, the modulus of          *)
(* predictNextCycle is never by zero, and for every fromDate after the     *)
(* start of the first log daysUntilNextPeriod is in 1..cycleLength.        *)
C27_AveragesInRange ==
    LET cycleLength == calculateAverageCycleLength(periodLogs)
        periodLength == calculateAveragePeriodLength(periodLogs)
    IN  /\ cycleLength \in 21..35
        /\ periodLength \in 3..10
        /\ periodLength < cycleLength
        /\ cycleLength # 0
        /\ \A from \in FromDates :
              (Len(periodLogs) > 0 /\ isAfter(from, periodLogs[1].startDate)) =>
                 LET daysSinceLastPeriod == differenceInDays(from, periodLogs[1].startDate)
                     daysUntilNextPeriod == cycleLength - (daysSinceLastPeriod % cycleLength)
                 IN  /\ daysUntilNextPeriod \in 1..cycleLength
                     /\ NextPeriodStart(periodLogs, from) = addDays(from, daysUntilNextPeriod)

(* averages other than the defaults: the logs 02-06..02-10 and             *)
(* 02-27..03-01 give a cycle of 21 days and a period of 5 (4.5 rounded);   *)
(* the query date 05-30 is 93 days after the start of the first log, so    *)
(* daysUntilNextPeriod is 21 - 93 % 21 = 12                                *)
C27_Witness ==
    /\ op = "predictNextCycle"
    /\ fromDate = 150
    /\ Len(periodLogs) = 2
    /\ periodLogs[1].startDate = 57
    /\ calculateAverageCycleLength(periodLogs) = 21
    /\ calculateAveragePeriodLength(periodLogs) = 5
    /\ NextPeriodStart(periodLogs, fromDate) = 162

----------------------------------------------------------------------------
(* Further properties of CyclePredictionService *)

(* the lengths of the min(6, count) most recent cycles, 0 for no length *)
RecentLengths ==
    [i \in 1..(IF Len(cycles) < 6 THEN Len(cycles) ELSE 6) |-> cycles[i].length]

(* sum of 0.8^i * x[i] and of 0.8^i, both times 5^5 *)
RECURSIVE WeightedTotal(_, _)
WeightedTotal(x, i) ==
    IF i > Len(x) THEN 0 ELSE x[i] * Weight(i - 1) + WeightedTotal(x, i + 1)

RECURSIVE WeightTotal(_, _)
WeightTotal(x, i) ==
    IF i > Len(x) THEN 0 ELSE Weight(i - 1) + WeightTotal(x, i + 1)

(* the fraction f is the number num / den; den divides the denominator of  *)
(* every fraction the predictor forms                                      *)
IsFraction(f, num, den) ==
    f.den # 0 /\ f.den % den = 0 /\ f.num = (f.den \div den) * num

Between(f, x) ==
    /\ \E i \in 1..Len(x) : x[i] * f.den <= f.num
    /\ \E i \in 1..Len(x) : f.num <= x[i] * f.den

EqualsWhenAllEqual(f, x) ==
    (\A i \in 1..Len(x) : x[i] = x[1]) => f.num = x[1] * f.den

StartOfLastCycle == [day |-> cycles[1].startDate, ms |-> 0]

(* C22 as stated: the predicted length is sum(0.8^i * len_i) / sum(0.8^i)  *)
(* over the lengths of the min(6, count) most recent cycles, lies between  *)
(* the smallest and the largest of them, equals L when they all equal L,   *)
(* and nextPeriodStart is the start of the most recent cycle plus the      *)
(* predicted length in days.                                               *)
C22_WeightedAverage ==
    prediction.status = "ok" =>
        LET f == prediction.predictedLength
        IN  /\ IsFraction(f, WeightedTotal(RecentLengths, 1), WeightTotal(RecentLengths, 1))
            /\ Between(f, RecentLengths)
            /\ EqualsWhenAllEqual(f, RecentLengths)
            /\ prediction.nextPeriodStart = AddDaysFraction(StartOfLastCycle, f.num, f.den)

(* C22 amended: len_i is the length of the cycle or, for a cycle without a *)
(* length, the mean of the recorded lengths of all ended cycles of the     *)
(* history; the bounds hold when each of the n cycles has a length; with a *)
(* cycle without length and no recorded length at all the predicted length *)
(* is NaN and nextPeriodStart an invalid date; otherwise nextPeriodStart   *)
(* is the start of the most recent cycle plus the predicted length in      *)
(* days, cut to a whole number of milliseconds.                            *)
C22_WeightedWithFallback ==
    prediction.status = "ok" =>
        LET f == prediction.predictedLength
            mean == MeanFraction(cycles)
            missing == \E i \in 1..Len(RecentLengths) : RecentLengths[i] = 0
            count == IF mean.den = 0 THEN 1 ELSE mean.den
            filled == [i \in 1..Len(RecentLengths) |->
                          IF RecentLengths[i] # 0 THEN RecentLengths[i] * count
                          ELSE mean.num]
        IN  IF missing /\ mean.den = 0
            THEN f.den = 0 /\ prediction.nextPeriodStart = InvalidDate
            ELSE /\ IsFraction(f, WeightedTotal(filled, 1),
                               count * WeightTotal(RecentLengths, 1))
                 /\ ~missing => Between(f, RecentLengths) /\ EqualsWhenAllEqual(f, RecentLengths)
                 /\ prediction.nextPeriodStart.day >= cycles[1].startDate
                 /\ prediction.nextPeriodStart
                       = AddDaysFraction(StartOfLastCycle, f.num, f.den)

(* seven cycles, the most recent without a length, the next five of 28     *)
(* days and the oldest, outside the slice, of 30: the mean 170 / 6 stands  *)
(* in for the missing length and the predicted length is above 28          *)
C22_Witness ==
    /\ prediction.status = "ok"
    /\ Len(cycles) = 7
    /\ [i \in 1..7 |-> cycles[i].length] = <<0, 28, 28, 28, 28, 28, 30>>
    /\ prediction.predictedLength.num > 28 * prediction.predictedLength.den
    /\ prediction.nextPeriodStart.day = 328 /\ prediction.nextPeriodStart.ms > 0

NotAfter(a, b) == a.day < b.day \/ (a.day = b.day /\ a.ms <= b.ms)

(* C28: for every positive cycle length the four ranges of                 *)
(* phasesPrediction partition the predicted cycle: menstrual starts at the *)
(* cycle start, follicular, ovulation and luteal each start where the      *)
(* phase before ends, every range has start <= end, and luteal ends at     *)
(* cycle start + cycle length.                                             *)
C28_PhasesPartition ==
    (prediction.status = "ok" /\ MeanFraction(cycles).den # 0) =>
        LET phases == prediction.phasesPrediction
            cycleLength == MeanFraction(cycles)
        IN  /\ [i \in 1..Len(phases) |-> phases[i].phase]
                  = <<"menstrual", "follicular", "ovulation", "luteal">>
            /\ phases[1].start = prediction.nextPeriodStart
            /\ \A i \in 2..4 : phases[i].start = phases[i - 1].end
            /\ \A i \in 1..4 : NotAfter(phases[i].start, phases[i].end)
            /\ phases[4].end = AddDaysFraction(prediction.nextPeriodStart,
                                               cycleLength.num, cycleLength.den)

----------------------------------------------------------------------------
(* Further properties of FertilityPredictionService *)

(* the cycles of the history are listed most recent first *)
MostRecentFirst(cs) ==
    \A i \in 1..(Len(cs) - 1) : cs[i].startDate > cs[i + 1].startDate

(* the positive numbers of days between consecutive cycle starts, minus 14 *)
GapsLess14(cs) ==
    [i \in 1..(Len(cs) - 1) |-> (cs[i].startDate - cs[i + 1].startDate) - 14]

(* C29: for a history of at least 3 cycles listed most recent first,       *)
(* averageOvulationDay is the rounded mean of (gap - 14) over adjacent     *)
(* cycles, gap being the positive number of days between consecutive cycle *)
(* starts, and when every gap exceeds 14 days the expectedDate of          *)
(* predictNextOvulation is later than the start of the last cycle.         *)
C29_OvulationDay ==
    LET cs == fertilityStats.cycles
    IN  (Len(cs) >= 3 /\ MostRecentFirst(cs)) =>
           /\ fertilityStats.status = "ok" =>
                 IsRounded(fertilityStats.averageOvulationDay,
                           SumSeq(GapsLess14(cs), 1), Len(cs) - 1)
           /\ (ovulation # NoOvulation /\ \A i \in 1..(Len(cs) - 1) : GapsLess14(cs)[i] > 0) =>
                 ovulation.expectedDate > cs[1].startDate

----------------------------------------------------------------------------
(* Further properties of CyclePage *)

(* no run of loadPeriodLogs and no run of handleLogSubmit is under way *)
Idle == InFlight = 0 /\ submit.status \notin {"saving", "landed"}

(* how often the log is stored for the user, and how often the service of  *)
(* the page holds it                                                       *)
StoredCount(log) == Cardinality({d \in store : PeriodLogOf(d) = log})

HeldCount(log) == Cardinality({i \in 1..Len(periodLogs) : periodLogs[i] = log})

(* C30: under every interleaving of loadPeriodLogs runs and handleLogSubmit *)
(* whose repository reads complete in any order, whenever no load and no   *)
(* submit is in flight the log list of the page's service holds exactly    *)
(* the logs stored for the user, none missing and none twice, and the      *)
(* displayed cycleDays are the prediction computed from the stored logs.   *)
C30_InSyncWhenIdle ==
    Idle =>
        /\ \A log \in {PeriodLogOf(d) : d \in store}
                         \cup {periodLogs[i] : i \in 1..Len(periodLogs)} :
              HeldCount(log) = StoredCount(log)
        /\ displayed = predictNextCycle(AddAll(<< >>, getPeriodLogs(store), 1), Today)

=============================================================================
